---------------------------- MODULE Spec2Model ----------------------------
(***************************************************************************)
(* A model of the ssh-rs client: the per-direction packet sequence         *)
(* counters (client.rs), the channel close handshake, window accounting,   *)
(* channel opening and message dispatch (channel.rs), and the session      *)
(* driver connect() / authentication() / open_channel() (session.rs).      *)
(*                                                                         *)
(* Seven specifications share the module, one per component:               *)
(*   SpecSeq     Sequence::client_auto_increment / server_auto_increment   *)
(*   SpecClose   Channel::close                                            *)
(*   SpecWindow  Channel::window_adjust fed by inbound data deliveries     *)
(*   Spec        Session::connect, authentication, open_channel, called    *)
(*               one after the other by the thread that owns the session   *)
(*   SpecOpen    Session::open_channel called by several threads at once   *)
(*   SpecChan    Channel::open_shell / open_exec with the dispatcher        *)
(*               Channel::other_info, rekeying included                    *)
(*   SpecStall   Channel::window_adjust fed packet by packet               *)
(* Each leaves the other components' variables at their initial values.    *)
(***************************************************************************)
EXTENDS Integers, Sequences, FiniteSets

VARIABLES
    \* client.rs, struct Sequence
    client_sequence_num,   \* Sequence.client_sequence_num: u32
    server_sequence_num,   \* Sequence.server_sequence_num: u32
    client_calls,          \* number of client_auto_increment() calls so far, modulo 2^32
    server_calls,          \* number of server_auto_increment() calls so far, modulo 2^32
    seq_steps,             \* calls of either auto-increment made in this run
    \* channel.rs, Channel::close
    close_pc,              \* position of close(): "idle", "check", "read", "done"
    close_result,          \* "none" while running, else what close() returned
    close_sent,            \* packets close() has written, in order
    close_matched,         \* TRUE once a CHANNEL_CLOSE for client_channel was read
    close_globals,         \* number of SSH_MSG_GLOBAL_REQUEST messages close() has handled
    server_channel,        \* Channel.server_channel
    client_channel,        \* Channel.client_channel
    now,                   \* the wall clock, in milliseconds since close() began
    date_time,             \* the local `date_time` captured once by close()
    timeout,               \* the local `timeout` = date_time + 1500
    checked_at,            \* the wall clock at the latest loop-head timeout check
    \* channel.rs, Channel::window_adjust
    sender_window_size,    \* stream.sender_window_size: bytes consumed since the last adjust
    peer_window,           \* bytes the peer may still send (advertised - received + adjusted),
                           \* as <<hi, lo>>; negative once the peer has sent more
    adjust_sent,           \* the amounts of the WINDOW_ADJUST messages written, in order
    last_consumed,         \* sender_window_size at entry of the latest window_adjust()
    win_pc,                \* "recv": awaiting data, "adjust": window_adjust() due, "error",
                           \* "panic"
    deliveries,            \* number of data deliveries so far
    \* session.rs, Session
    username,              \* config.user.username
    password,              \* config.user.password
    version_ok,            \* whether config.version.validation() accepts the client version
    conn_pc,               \* position of connect()
    conn_result,           \* "none" while connect() has not returned, else its result
    wire,                  \* every message written to the transport, in order
    kex_done,              \* kex.verify_signature_and_new_keys() has returned Ok
    accept_seen,           \* authentication() has processed SSH_MSG_SERVICE_ACCEPT
    auth_reads,            \* number of client.read() calls made by authentication()
    CLIENT_CHANNEL,        \* global::CLIENT_CHANNEL, AtomicU32, as <<hi, lo>>
    open_pc,               \* per thread: position inside open_channel()
    open_local,            \* per thread: the local `client_channel`
    open_calls,            \* per thread: number of open_channel() calls begun
    open_sent,             \* every SSH_MSG_CHANNEL_OPEN written, in order: its client channel
                           \* and the call of open_channel() that wrote it
    channels,              \* every Channel returned, in order of return: its client_channel
                           \* and the call of open_channel() that returned it
    \* channel.rs, Channel::open_shell / open_exec / other_info
    chan_op,               \* the operation running: "open_shell" or "open_exec"
    chan_pc,               \* its position: "loop", "reset_key", "install_key", "done"
    chan_result,           \* "none" while it runs, else what it returned
    chan_inbox,            \* the results of the latest stream.read() not yet handled
    chan_seen,             \* the inbound messages handled so far, in order
    chan_sent,             \* the packets the operation has written, in order
    IS_ENCRYPT,            \* global_variable::IS_ENCRYPT, AtomicBool
    encryption_key,        \* the key set by global_variable::update_encryption_key
    kex_k,                 \* key_agreement.h.k: the shared secret K of the channel's latest
                           \* exchange, 0 before it has made one
    kex_h,                 \* the exchange hash H of that exchange, 0 before
    session_id,            \* key_agreement.session_id, 0 while it has none
    exchanges,             \* number of key exchanges made on the connection so far
    remote_close,          \* Channel.remote_close
    local_close,           \* Channel.local_close
    reply_outcome,         \* how the latest SSH_MSG_KEX_ECDH_REPLY arm ended, "none" before
    observed               \* IS_ENCRYPT and the key as another thread last loaded them

seqVars    == <<client_sequence_num, server_sequence_num, client_calls, server_calls,
                seq_steps>>
closeVars  == <<close_pc, close_result, close_sent, close_matched, close_globals, server_channel,
                client_channel, now, date_time, timeout, checked_at>>
windowVars == <<sender_window_size, peer_window, adjust_sent, last_consumed, win_pc,
                deliveries>>
sessVars   == <<username, password, version_ok, conn_pc, conn_result, wire,
                kex_done, accept_seen, auth_reads, CLIENT_CHANNEL, open_pc, open_local,
                open_calls, open_sent, channels>>
chanVars   == <<chan_op, chan_pc, chan_result, chan_inbox, chan_seen, chan_sent,
                IS_ENCRYPT, encryption_key, kex_k, kex_h, session_id, exchanges,
                remote_close, local_close, reply_outcome, observed>>
vars       == <<seqVars, closeVars, windowVars, sessVars, chanVars>>

(***************************************************************************)
(* u32 values.  A u32 that may come near u32::MAX does not fit a 32-bit     *)
(* signed integer, so it is held as its two 16-bit halves <<hi, lo>>.      *)
(***************************************************************************)
HalfWord    == 256 * 256
U32Zero     == <<0, 0>>
U32Max      == <<HalfWord - 1, HalfWord - 1>>       \* u32::MAX
\* The u32 with value n, for 0 <= n < 2^31
U32Of(n)    == <<n \div HalfWord, n % HalfWord>>
\* The value of a u32 below 2^31
U32Value(n) == n[1] * HalfWord + n[2]
\* m < n, for two u32
U32Less(m, n) == m[1] < n[1] \/ (m[1] = n[1] /\ m[2] < n[2])

\* A byte count of any size or sign is held the same way, as <<hi, lo>> with
\* 0 <= lo < 2^16 and the value hi * 2^16 + lo.
WideOf(n)     == <<n \div HalfWord, n % HalfWord>>
WideAdd(a, b) == <<a[1] + b[1] + ((a[2] + b[2]) \div HalfWord), (a[2] + b[2]) % HalfWord>>
WideSub(a, b) == <<a[1] - b[1] + ((a[2] - b[2]) \div HalfWord), (a[2] - b[2]) % HalfWord>>
WideLeq(a, b) == a[1] < b[1] \/ (a[1] = b[1] /\ a[2] <= b[2])
\* n + 1 modulo 2^32
U32Succ(n)  ==
    IF n[2] < HalfWord - 1 THEN <<n[1], n[2] + 1>>
    ELSE IF n[1] < HalfWord - 1 THEN <<n[1] + 1, 0>>
    ELSE U32Zero

(***************************************************************************)
(* client.rs: Sequence                                                     *)
(***************************************************************************)
\* A counter starts either at 0 or SeqLead calls before it reaches u32::MAX.
SeqLead     == 2
\* Calls of the two auto-increments explored from a starting point.
MaxSeqCalls == 8

\* The body shared by client_auto_increment and server_auto_increment:
\*     if n == u32::MAX { n = 0; }
\*     n += 1;
AutoIncrement(n) ==
    LET afterWrap == IF n = U32Max THEN U32Zero ELSE n
    IN  U32Succ(afterWrap)

\* The counter is 0 after Client::connect and holds k after k < 2^32 calls, so a
\* run may be picked up SeqLead calls before the counter reaches u32::MAX.
SeqStarts == {U32Zero, <<HalfWord - 1, HalfWord - 1 - SeqLead>>}

InitSeq ==
    /\ client_sequence_num \in SeqStarts
    /\ client_calls = client_sequence_num
    /\ server_sequence_num \in SeqStarts
    /\ server_calls = server_sequence_num
    /\ seq_steps = 0

SeqIdle ==
    /\ client_sequence_num = U32Zero
    /\ client_calls = U32Zero
    /\ server_sequence_num = U32Zero
    /\ server_calls = U32Zero
    /\ seq_steps = 0

\* client_auto_increment(), called once per packet sent
client_auto_increment ==
    /\ seq_steps < MaxSeqCalls
    /\ seq_steps' = seq_steps + 1
    /\ client_sequence_num' = AutoIncrement(client_sequence_num)
    /\ client_calls' = U32Succ(client_calls)
    /\ UNCHANGED <<server_sequence_num, server_calls, closeVars, windowVars, sessVars, chanVars>>

\* server_auto_increment(), called once per packet received
server_auto_increment ==
    /\ seq_steps < MaxSeqCalls
    /\ seq_steps' = seq_steps + 1
    /\ server_sequence_num' = AutoIncrement(server_sequence_num)
    /\ server_calls' = U32Succ(server_calls)
    /\ UNCHANGED <<client_sequence_num, client_calls, closeVars, windowVars, sessVars, chanVars>>

NextSeq == client_auto_increment \/ server_auto_increment

(***************************************************************************)
(* channel.rs: Channel::close                                              *)
(***************************************************************************)
\* Channel numbers the model draws from: 0 .. MaxChannelId.
MaxChannelId   == 1
\* Messages one stream.read() may return at most.
MaxBatch       == 2
\* The clock advances in steps of TickMs, up to MaxNow.
TickMs         == 500
MaxNow         == 2500
\* let timeout = date_time.timestamp_millis() + 1500;
CloseTimeoutMs == 1500
\* Global requests close() is handed in one run at most.
MaxGlobals     == 2

ChannelIds == 0..MaxChannelId

Msg(code, channel) == [code |-> code, channel |-> channel]

\* What the peer may send while close() polls. close() reads the first byte of a
\* payload as the message code and the next four as a channel number, whatever
\* the message is.
CloseInbound ==
    { Msg(c, n) : c \in {"SSH_MSG_CHANNEL_CLOSE", "SSH_MSG_CHANNEL_WINDOW_ADJUST",
                         "SSH_MSG_GLOBAL_REQUEST"},
                  n \in ChannelIds }

\* The results of one stream.read(): up to MaxBatch whole messages.
Batches(S) == UNION { [1..k -> S] : k \in 0..MaxBatch }

InitClose ==
    /\ close_pc = "idle"
    /\ close_result = "none"
    /\ close_sent = <<>>
    /\ close_matched = FALSE
    /\ close_globals = 0
    /\ server_channel \in ChannelIds
    /\ client_channel \in ChannelIds
    /\ now = 0
    /\ date_time = 0
    /\ timeout = 0
    /\ checked_at = 0

CloseIdle ==
    /\ close_pc = "idle"
    /\ close_result = "none"
    /\ close_sent = <<>>
    /\ close_matched = FALSE
    /\ close_globals = 0
    /\ server_channel = 0
    /\ client_channel = 0
    /\ now = 0
    /\ date_time = 0
    /\ timeout = 0
    /\ checked_at = 0

\* The test of the for loop of close():
\*     message_code == SSH_MSG_CHANNEL_CLOSE && channel_num == self.client_channel
CloseAck(m) == m.code = "SSH_MSG_CHANNEL_CLOSE" /\ m.channel = client_channel

\* The turns of `for buf in results` of close() that take a global request in
\* hand: the loop goes through the results in order and returns at the first
\* acknowledgement, so what follows that one is never looked at.
CloseGlobals(results) ==
    { i \in 1..Len(results) :
        /\ results[i].code = "SSH_MSG_GLOBAL_REQUEST"
        /\ \A j \in 1..(i - 1) : ~CloseAck(results[j]) }

\* The test at the head of the loop of close(): `date_time` is the value captured
\* before the loop, not a fresh reading of the clock.
CloseTimedOut == date_time >= timeout

\* close(), up to the loop: write SSH_MSG_CHANNEL_CLOSE for server_channel, then
\* capture the clock and compute the deadline.
CloseBegin ==
    /\ close_pc = "idle"
    /\ \E write_ok \in BOOLEAN :
         IF write_ok
         THEN /\ close_sent' = Append(close_sent, Msg("SSH_MSG_CHANNEL_CLOSE", server_channel))
              /\ date_time' = now
              /\ timeout' = now + CloseTimeoutMs
              /\ close_pc' = "check"
              /\ UNCHANGED close_result
         ELSE /\ close_pc' = "done"
              /\ close_result' = "IoError"
              /\ UNCHANGED <<close_sent, date_time, timeout>>
    /\ UNCHANGED <<close_matched, close_globals, server_channel, client_channel, now,
                   checked_at>>
    /\ UNCHANGED <<seqVars, windowVars, sessVars, chanVars>>

\* The head of the loop: return TimedOut when the test says so, else go on to read.
CloseCheck ==
    /\ close_pc = "check"
    /\ checked_at' = now
    /\ IF CloseTimedOut
       THEN close_pc' = "done" /\ close_result' = "TimedOut"
       ELSE close_pc' = "read" /\ UNCHANGED close_result
    /\ UNCHANGED <<close_sent, close_matched, close_globals, server_channel,
                   client_channel, now, date_time, timeout>>
    /\ UNCHANGED <<seqVars, windowVars, sessVars, chanVars>>

\* let results = self.stream.read()?; for buf in results { ... }
CloseRead ==
    /\ close_pc = "read"
    /\ \/ /\ close_pc' = "done"                      \* read() returned an I/O error
          /\ close_result' = "IoError"
          /\ UNCHANGED <<close_matched, close_globals>>
       \/ \E results \in Batches(CloseInbound) :
            /\ close_globals' = close_globals + Cardinality(CloseGlobals(results))
            /\ close_globals' <= MaxGlobals
            /\ IF \E i \in 1..Len(results) : CloseAck(results[i])
               THEN close_pc' = "done" /\ close_result' = "Ok" /\ close_matched' = TRUE
               ELSE close_pc' = "check" /\ UNCHANGED <<close_result, close_matched>>
    /\ UNCHANGED <<close_sent, server_channel, client_channel, now, date_time, timeout,
                   checked_at>>
    /\ UNCHANGED <<seqVars, windowVars, sessVars, chanVars>>

\* Time passes.
Tick ==
    /\ close_pc # "done"
    /\ now + TickMs <= MaxNow
    /\ now' = now + TickMs
    /\ UNCHANGED <<close_pc, close_result, close_sent, close_matched, close_globals, server_channel,
                   client_channel, date_time, timeout, checked_at>>
    /\ UNCHANGED <<seqVars, windowVars, sessVars, chanVars>>

NextClose == CloseBegin \/ CloseCheck \/ CloseRead \/ Tick

(***************************************************************************)
(* channel.rs: Channel::window_adjust                                      *)
(***************************************************************************)
\* size::LOCAL_WINDOW_SIZE and size::BUF_SIZE (the constants module)
LOCAL_WINDOW_SIZE == 2097152
BUF_SIZE          == 32768
\* Data deliveries explored.
MaxDeliveries     == 6

\* The window the peer is granted by SSH_MSG_CHANNEL_OPEN (ssh_open_channel).
InitialWindow == WideOf(LOCAL_WINDOW_SIZE)

\* if self.stream.sender_window_size >= (size::LOCAL_WINDOW_SIZE / 2)
AdjustDue(consumed) == consumed >= (LOCAL_WINDOW_SIZE \div 2)

\* size::LOCAL_WINDOW_SIZE - self.stream.sender_window_size is a u32 subtraction:
\* it overflows when the counter is above LOCAL_WINDOW_SIZE, which takes a peer
\* that has sent more than its window.
AdjustOverflows(consumed) == consumed > LOCAL_WINDOW_SIZE

\* .put_u32(size::LOCAL_WINDOW_SIZE - self.stream.sender_window_size), as a u32:
\* the difference, or 2^32 less the excess where a build without overflow checks
\* wraps (2^32 - e = u32::MAX - (e - 1), taken half by half).
AdjustAmount(consumed) ==
    IF ~AdjustOverflows(consumed)
    THEN U32Of(LOCAL_WINDOW_SIZE - consumed)
    ELSE LET e == consumed - LOCAL_WINDOW_SIZE - 1
         IN  <<HalfWord - 1 - (e \div HalfWord), HalfWord - 1 - (e % HalfWord)>>

\* self.stream.sender_window_size = 0;
AfterAdjust(consumed) == 0

\* Bytes one delivery (one read of the transport, one or more data packets) may
\* carry: a byte, a packet more or less, and the amounts around half a window.
DeliverySizes ==
    {1, BUF_SIZE - 1, BUF_SIZE,
     (LOCAL_WINDOW_SIZE \div 2) - 1, LOCAL_WINDOW_SIZE \div 2,
     (LOCAL_WINDOW_SIZE \div 2) + 1, LOCAL_WINDOW_SIZE}

InitWindow ==
    /\ sender_window_size = 0
    /\ peer_window = InitialWindow
    /\ adjust_sent = <<>>
    /\ last_consumed = 0
    /\ win_pc = "recv"
    /\ deliveries = 0

WindowIdle == InitWindow

\* The transport hands n bytes of channel data to the channel, whether or not
\* the peer's window allowed them: nothing compares the data received with the
\* window.  The window has n bytes less, and n more bytes count as consumed.
DataDelivery ==
    /\ win_pc = "recv"
    /\ deliveries < MaxDeliveries
    /\ \E n \in DeliverySizes :
         /\ sender_window_size' = sender_window_size + n
         /\ peer_window' = WideSub(peer_window, WideOf(n))
    /\ deliveries' = deliveries + 1
    /\ win_pc' = "adjust"
    /\ UNCHANGED <<adjust_sent, last_consumed>>
    /\ UNCHANGED <<seqVars, closeVars, sessVars, chanVars>>

\* window_adjust()
WindowAdjust ==
    /\ win_pc = "adjust"
    /\ last_consumed' = sender_window_size
    /\ IF AdjustDue(sender_window_size)
       THEN \/ /\ AdjustOverflows(sender_window_size)   \* a build with overflow checks
               /\ win_pc' = "panic"
               /\ UNCHANGED <<adjust_sent, peer_window, sender_window_size>>
            \/ \E write_ok \in BOOLEAN :
                 IF write_ok
                 THEN /\ adjust_sent' = Append(adjust_sent, AdjustAmount(sender_window_size))
                      /\ peer_window' = WideAdd(peer_window, AdjustAmount(sender_window_size))
                      /\ sender_window_size' = AfterAdjust(sender_window_size)
                      /\ win_pc' = "recv"
                 ELSE /\ win_pc' = "error"       \* self.stream.write(..)? returned Err
                      /\ UNCHANGED <<adjust_sent, peer_window, sender_window_size>>
       ELSE /\ win_pc' = "recv"
            /\ UNCHANGED <<adjust_sent, peer_window, sender_window_size>>
    /\ UNCHANGED deliveries
    /\ UNCHANGED <<seqVars, closeVars, sessVars, chanVars>>

NextWindow == DataDelivery \/ WindowAdjust

\* Data packets explored when the peer sends packet by packet.
MaxPackets == 600

\* The data bytes of one packet of a peer that fills each packet to one byte
\* short of the maximum packet size announced by SSH_MSG_CHANNEL_OPEN, and
\* sends what its window still allows when that is less.
PacketSize(window) ==
    IF WideLeq(window, WideOf(BUF_SIZE - 1)) THEN U32Value(window) ELSE BUF_SIZE - 1

\* The transport hands the data of one packet to the channel.
PacketDelivery ==
    /\ win_pc = "recv"
    /\ deliveries < MaxPackets
    /\ WideLeq(WideOf(1), peer_window)
    /\ sender_window_size' = sender_window_size + PacketSize(peer_window)
    /\ peer_window' = WideSub(peer_window, WideOf(PacketSize(peer_window)))
    /\ deliveries' = deliveries + 1
    /\ win_pc' = "adjust"
    /\ UNCHANGED <<adjust_sent, last_consumed>>
    /\ UNCHANGED <<seqVars, closeVars, sessVars, chanVars>>

NextStall == PacketDelivery \/ WindowAdjust

(***************************************************************************)
(* session.rs: Session                                                     *)
(***************************************************************************)
\* Threads that call open_channel(), each through a Session value of its own.
NumThreads   == 2
\* Calls of open_channel() per thread.
MaxOpens     == 2
\* Calls of client.read() by authentication().
MaxAuthReads == 2

Threads == 1..NumThreads

Usernames == {"", "root"}
Passwords == {"", "secret"}

\* What the server may send while authentication() reads. "EMPTY" is a result
\* with no bytes (`if result.is_empty() { continue }`), "SSH_MSG_IGNORE" stands
\* for every code the match leaves to `_ => {}`.
AuthInbound ==
    {"SSH_MSG_SERVICE_ACCEPT", "SSH_MSG_USERAUTH_FAILURE", "SSH_MSG_USERAUTH_SUCCESS",
     "SSH_MSG_GLOBAL_REQUEST", "SSH_MSG_IGNORE", "EMPTY"}

InWire(code) == \E i \in 1..Len(wire) : wire[i] = code

InitSession ==
    /\ username \in Usernames
    /\ password \in Passwords
    /\ version_ok \in BOOLEAN
    /\ conn_pc = "idle"
    /\ conn_result = "none"
    /\ wire = <<>>
    /\ kex_done = FALSE
    /\ accept_seen = FALSE
    /\ auth_reads = 0
    /\ CLIENT_CHANNEL = U32Zero
    /\ open_pc = [t \in Threads |-> "idle"]
    /\ open_local = [t \in Threads |-> U32Zero]
    /\ open_calls = [t \in Threads |-> 0]
    /\ open_sent = <<>>
    /\ channels = <<>>

SessionIdle ==
    /\ InitSession
    /\ username = ""
    /\ password = ""
    /\ version_ok

connVars == <<conn_pc, conn_result, kex_done, accept_seen, auth_reads>>
openVars == <<CLIENT_CHANNEL, open_pc, open_local, open_calls, open_sent, channels>>
confVars == <<username, password, version_ok>>

\* set_user_and_password(), called before connect()
SetUserAndPassword ==
    /\ conn_pc = "idle"
    /\ \E user \in Usernames, pass \in Passwords :
         /\ username' = user
         /\ password' = pass
    /\ UNCHANGED <<version_ok, wire, connVars, openVars>>
    /\ UNCHANGED <<seqVars, closeVars, windowVars, chanVars>>

\* connect() stays at the step that failed and returns its error.
ConnectFails(error) ==
    /\ conn_result' = error
    /\ UNCHANGED <<conn_pc, wire, kex_done>>

\* A step of connect() that writes nothing and either fails or goes on.
ConnectStep(from, to, error) ==
    /\ conn_pc = from
    /\ conn_result = "none"
    /\ \/ conn_pc' = to /\ UNCHANGED <<conn_result, wire, kex_done>>
       \/ ConnectFails(error)
    /\ UNCHANGED <<accept_seen, auth_reads, confVars, openVars>>
    /\ UNCHANGED <<seqVars, closeVars, windowVars, chanVars>>

\* A step of connect() that writes one message, or fails writing it.
ConnectSend(from, to, code, error) ==
    /\ conn_pc = from
    /\ conn_result = "none"
    /\ \/ /\ conn_pc' = to
          /\ wire' = Append(wire, code)
          /\ UNCHANGED <<conn_result, kex_done>>
       \/ ConnectFails(error)
    /\ UNCHANGED <<accept_seen, auth_reads, confVars, openVars>>
    /\ UNCHANGED <<seqVars, closeVars, windowVars, chanVars>>

\* connect() is called.
Connect ==
    /\ conn_pc = "idle"
    /\ conn_pc' = "receive_version"
    /\ UNCHANGED <<conn_result, wire, kex_done, accept_seen, auth_reads,
                   confVars, openVars>>
    /\ UNCHANGED <<seqVars, closeVars, windowVars, chanVars>>

\* self.receive_version()?
ReceiveVersion == ConnectStep("receive_version", "validation", "VersionReadError")

\* A variant of ValidationPasses that drops the `?` of validation().
ValidationIgnored == TRUE

\* let config = util::config()?; config.version.validation()?;
ValidationPasses == version_ok

Validation ==
    /\ conn_pc = "validation"
    /\ conn_result = "none"
    /\ IF ValidationPasses
       THEN /\ conn_pc' = "send_version"
            /\ UNCHANGED <<conn_result, wire, kex_done>>
       ELSE /\ ConnectFails("VersionError")
    /\ UNCHANGED <<accept_seen, auth_reads, confVars, openVars>>
    /\ UNCHANGED <<seqVars, closeVars, windowVars, chanVars>>

\* self.send_version()?
SendVersion == ConnectSend("send_version", "kex_new", "VERSION", "IoError")

\* let mut kex = Kex::new()?;
KexNew == ConnectStep("kex_new", "send_algorithm", "KexError")

\* kex.send_algorithm()?
SendAlgorithm == ConnectSend("send_algorithm", "receive_algorithm", "SSH_MSG_KEXINIT", "IoError")

\* kex.receive_algorithm()?
ReceiveAlgorithm == ConnectStep("receive_algorithm", "matching_algorithm", "IoError")

\* let (dh, sign) = config.algorithm.matching_algorithm()?;
MatchingAlgorithm == ConnectStep("matching_algorithm", "send_qc", "AlgorithmError")

\* kex.send_qc()?
SendQc == ConnectSend("send_qc", "verify_signature_and_new_keys", "SSH_MSG_KEX_ECDH_INIT", "IoError")

\* kex.verify_signature_and_new_keys()?: read the server's reply, verify the host
\* signature, then write SSH_MSG_NEWKEYS; any of the three may fail.
VerifySignatureAndNewKeys ==
    /\ conn_pc = "verify_signature_and_new_keys"
    /\ conn_result = "none"
    /\ \/ /\ conn_pc' = "initiate_authentication"
          /\ wire' = Append(wire, "SSH_MSG_NEWKEYS")
          /\ kex_done' = TRUE
          /\ UNCHANGED conn_result
       \/ ConnectFails("SignatureError")
       \/ ConnectFails("IoError")
    /\ UNCHANGED <<accept_seen, auth_reads, confVars, openVars>>
    /\ UNCHANGED <<seqVars, closeVars, windowVars, chanVars>>

\* self.initiate_authentication()?
InitiateAuthentication ==
    ConnectSend("initiate_authentication", "authentication", "SSH_MSG_SERVICE_REQUEST", "IoError")

\* The state authentication() works on while it handles the results of one read:
\* the transport's output, whether SERVICE_ACCEPT was handled, the value returned
\* (if any), and how many more writes the transport accepts before one fails.
AuthState(w, accepted, result, writes_left) ==
    [wire |-> w, accept_seen |-> accepted, result |-> result, writes_left |-> writes_left]

\* client.write(data): the message is written, or the write fails and `?` returns.
AuthWrite(st, code) ==
    IF st.writes_left = 0
    THEN [st EXCEPT !.result = "IoError"]
    ELSE [st EXCEPT !.wire = Append(@, code), !.writes_left = @ - 1]

\* A variant of PasswordAuthentication without the checks of the configured user.
PasswordAuthenticationUnchecked(st) == AuthWrite(st, "SSH_MSG_USERAUTH_REQUEST")

\* password_authentication(): the checks of the configured user come first.
PasswordAuthentication(st) ==
    IF username = "" THEN [st EXCEPT !.result = "UserNullError"]
    ELSE IF password = "" THEN [st EXCEPT !.result = "PasswordNullError"]
    ELSE AuthWrite(st, "SSH_MSG_USERAUTH_REQUEST")

\* One arm of the match in authentication().
AuthHandle(code, st) ==
    CASE code = "SSH_MSG_SERVICE_ACCEPT" ->
             PasswordAuthentication([st EXCEPT !.accept_seen = TRUE])
      [] code = "SSH_MSG_USERAUTH_FAILURE" -> [st EXCEPT !.result = "PasswordError"]
      [] code = "SSH_MSG_USERAUTH_SUCCESS" -> [st EXCEPT !.result = "Ok"]
      [] code = "SSH_MSG_GLOBAL_REQUEST" -> AuthWrite(st, "SSH_MSG_REQUEST_FAILURE")
      [] OTHER -> st

\* for mut result in results { ... }: the results in order, until one returns.
RECURSIVE AuthResults(_, _, _)
AuthResults(results, i, st) ==
    IF i > Len(results) \/ st.result # "none"
    THEN st
    ELSE AuthResults(results, i + 1, AuthHandle(results[i], st))

\* One turn of the loop of authentication(): client.read()?, then the for loop.
Authentication ==
    /\ conn_pc = "authentication"
    /\ conn_result = "none"
    /\ auth_reads < MaxAuthReads
    /\ auth_reads' = auth_reads + 1
    /\ \/ /\ conn_result' = "IoError"                \* read() returned an I/O error
          /\ UNCHANGED <<wire, accept_seen>>
       \/ \E results \in Batches(AuthInbound), writes_left \in 0..MaxBatch :
            LET st == AuthResults(results, 1,
                                  AuthState(wire, accept_seen, "none", writes_left))
            IN  /\ wire' = st.wire
                /\ accept_seen' = st.accept_seen
                /\ conn_result' = st.result
    /\ UNCHANGED <<conn_pc, kex_done, confVars, openVars>>
    /\ UNCHANGED <<seqVars, closeVars, windowVars, chanVars>>

\* The call of open_channel() thread t is in, with the client channel it uses.
OpenCall(t) == [client_channel |-> open_local[t], thread |-> t, call |-> open_calls[t]]

\* open_channel(): let client_channel = global::CLIENT_CHANNEL.load(Relaxed);
OpenLoad(t) ==
    /\ open_pc[t] = "idle"
    /\ open_calls[t] < MaxOpens
    /\ open_calls' = [open_calls EXCEPT ![t] = @ + 1]
    /\ open_local' = [open_local EXCEPT ![t] = CLIENT_CHANNEL]
    /\ open_pc' = [open_pc EXCEPT ![t] = "ssh_open_channel"]
    /\ UNCHANGED <<CLIENT_CHANNEL, open_sent, channels, wire, connVars, confVars>>
    /\ UNCHANGED <<seqVars, closeVars, windowVars, chanVars>>

\* open_channel(): self.ssh_open_channel(client_channel)?, which writes
\* SSH_MSG_CHANNEL_OPEN under the transport's lock. No state of the session is
\* consulted.
SshOpenChannel(t) ==
    /\ open_pc[t] = "ssh_open_channel"
    /\ \/ /\ wire' = Append(wire, "SSH_MSG_CHANNEL_OPEN")
          /\ open_sent' = Append(open_sent, OpenCall(t))
          /\ open_pc' = [open_pc EXCEPT ![t] = "fetch_add"]
       \/ /\ open_pc' = [open_pc EXCEPT ![t] = "idle"]      \* the write failed
          /\ UNCHANGED <<wire, open_sent>>
    /\ UNCHANGED <<CLIENT_CHANNEL, open_local, open_calls, channels, connVars, confVars>>
    /\ UNCHANGED <<seqVars, closeVars, windowVars, chanVars>>

\* open_channel(): global::CLIENT_CHANNEL.fetch_add(1, Relaxed), which every
\* thread sees from then on.
OpenFetchAdd(t) ==
    /\ open_pc[t] = "fetch_add"
    /\ CLIENT_CHANNEL' = U32Succ(CLIENT_CHANNEL)
    /\ open_pc' = [open_pc EXCEPT ![t] = "return"]
    /\ UNCHANGED <<open_local, open_calls, open_sent, channels, wire, connVars, confVars>>
    /\ UNCHANGED <<seqVars, closeVars, windowVars, chanVars>>

\* open_channel(): the Channel is built (kex: Kex::new()?) and returned with the
\* client_channel loaded first.
OpenReturn(t) ==
    /\ open_pc[t] = "return"
    /\ \/ channels' = Append(channels, OpenCall(t))
       \/ UNCHANGED channels                                 \* Kex::new() failed
    /\ open_pc' = [open_pc EXCEPT ![t] = "idle"]
    /\ UNCHANGED <<CLIENT_CHANNEL, open_local, open_calls, open_sent, wire, connVars,
                   confVars>>
    /\ UNCHANGED <<seqVars, closeVars, windowVars, chanVars>>

\* The thread that owns the Session: it calls set_user_and_password(), connect()
\* and open_channel() one after the other, in any order.
MainThread == CHOOSE t \in Threads : \A u \in Threads : t <= u

\* connect() has not been called, or has returned.
ConnectNotRunning == conn_pc = "idle" \/ conn_result # "none"

\* The session used by its owner: no call begins while another is running.
NextSession ==
    \/ open_pc[MainThread] = "idle" /\ SetUserAndPassword
    \/ open_pc[MainThread] = "idle" /\ Connect
    \/ ReceiveVersion
    \/ Validation
    \/ SendVersion
    \/ KexNew
    \/ SendAlgorithm
    \/ ReceiveAlgorithm
    \/ MatchingAlgorithm
    \/ SendQc
    \/ VerifySignatureAndNewKeys
    \/ InitiateAuthentication
    \/ Authentication
    \/ ConnectNotRunning /\ OpenLoad(MainThread)
    \/ SshOpenChannel(MainThread)
    \/ OpenFetchAdd(MainThread)
    \/ OpenReturn(MainThread)

\* open_channel() called by several threads at once, each on a Session value of
\* its own (Session is a unit struct; the counter and the transport are global).
NextOpen ==
    \E t \in Threads : OpenLoad(t) \/ SshOpenChannel(t) \/ OpenFetchAdd(t) \/ OpenReturn(t)

(***************************************************************************)
(* channel.rs: Channel::open_shell, Channel::open_exec, Channel::other_info *)
(***************************************************************************)
\* Messages one run of open_shell() / open_exec() handles at most.
MaxChanMsgs == 3

\* Option<T>: None is the empty tuple, Some(v) the tuple of v alone.
None    == <<>>
Some(v) == <<v>>

\* HASH::new(k, h, session_id) followed by ChaCha20Poly1305::new(hash): the key
\* material is a function of the three inputs and of nothing else.
HASH_new(k, h, sid) == [k |-> k, h |-> h, session_id |-> sid]

\* The session id a key agreement made by Kex::new() starts with: none (0), or
\* the one of the connection, the H of its first exchange.
KexNewSessionIds == {0, 1}

\* The Channel as Session::open_channel() builds it, after connect(): the n-th
\* exchange of the connection has its shared secret K and its exchange hash H
\* both written n.  connect() has made the first one and left its key installed
\* and the flag set; the key agreement of the channel is a new one (Kex::new())
\* that has made no exchange.
InitChan ==
    /\ chan_op \in {"open_shell", "open_exec"}
    /\ chan_pc = "loop"
    /\ chan_result = "none"
    /\ chan_inbox = <<>>
    /\ chan_seen = <<>>
    /\ chan_sent = <<>>
    /\ IS_ENCRYPT = TRUE
    /\ encryption_key = Some(HASH_new(1, 1, 1))
    /\ kex_k = 0
    /\ kex_h = 0
    /\ session_id \in KexNewSessionIds
    /\ exchanges = 1
    /\ remote_close = FALSE
    /\ local_close = FALSE
    /\ reply_outcome = "none"
    /\ observed = [flag |-> TRUE, key |-> Some(HASH_new(1, 1, 1))]

ChanIdle == InitChan /\ chan_op = "open_shell" /\ session_id = 0

\* What the peer may send while open_shell() / open_exec() wait.  The channel
\* field of an open confirmation is its sender channel, the number the server
\* gave the channel; the code reads no channel field of the other messages.
ChanInbound ==
    { Msg("SSH_MSG_CHANNEL_OPEN_CONFIRMATION", n) : n \in ChannelIds }
    \cup
    { Msg(c, 0) : c \in {"SSH_MSG_CHANNEL_OPEN_FAILURE", "SSH_MSG_CHANNEL_SUCCESS",
                         "SSH_MSG_CHANNEL_FAILURE", "SSH_MSG_CHANNEL_CLOSE",
                         "SSH_MSG_CHANNEL_WINDOW_ADJUST", "SSH_MSG_GLOBAL_REQUEST",
                         "SSH_MSG_KEXINIT", "SSH_MSG_KEX_ECDH_REPLY"} }

\* A packet as stream.write() puts it on the wire: its code, the channel it names
\* (None for a message without one), the request type of a channel request, and
\* whether the transport protected it, which it does exactly when IS_ENCRYPT is
\* set at the time of the write.  `seen` is the number of inbound messages the
\* operation had taken in hand when it wrote the packet.
Packet(code, channel, request) ==
    [code |-> code, channel |-> channel, request |-> request,
     encrypted |-> IS_ENCRYPT, seen |-> Len(chan_seen')]

\* request_pty(): CHANNEL_REQUEST "pty-req" for the given server channel
PtyRequest(channel) == Packet("SSH_MSG_CHANNEL_REQUEST", Some(channel), "pty-req")
\* get_shell(): CHANNEL_REQUEST "shell" for the given server channel
ShellRequest(channel) == Packet("SSH_MSG_CHANNEL_REQUEST", Some(channel), "shell")

\* The first n of the packets ps are written; the write after them, if there is
\* one, fails, and `?` returns the error.
WriteAll(ps, n) ==
    /\ chan_sent' = chan_sent \o SubSeq(ps, 1, n)
    /\ IF n = Len(ps)
       THEN chan_pc' = "loop" /\ UNCHANGED chan_result
       ELSE chan_pc' = "done" /\ chan_result' = "IoError"

\* The operation returns: the rest of the current read is dropped with it.
ChanReturn(result) ==
    /\ chan_pc' = "done"
    /\ chan_result' = result
    /\ chan_inbox' = <<>>

keyVars == <<IS_ENCRYPT, encryption_key, kex_k, kex_h, session_id, exchanges, reply_outcome>>

\* algorithm_negotiation(data, &mut stream)?; send_public_key(&mut stream)?;
\* the client's own KEXINIT, then its DH public key, each written as the
\* transport then stands.
KexInitReply ==
    \E n \in 0..2 :
       WriteAll(<<Packet("SSH_MSG_KEXINIT", None, ""),
                  Packet("SSH_MSG_KEX_ECDH_INIT", None, "")>>, n)

\* A variant of ReplyProceeds that goes on whatever verify_signature() said.
ReplyProceedsUnverified(sid_ok, sig_ok) == sid_ok

\* generate_session_id_and_get_signature(result)?; verify_signature(&sig)?;
\* the arm goes past the two `?` only when both calls returned Ok.
ReplyProceeds(sid_ok, sig_ok) == sid_ok /\ sig_ok

\* generate_session_id_and_get_signature(): the exchange hash H of the exchange
\* just made becomes the session id on the first exchange only.
SessionIdAfter(sid, h) == IF sid = 0 THEN h ELSE sid

\* other_info(), arm SSH_MSG_KEX_ECDH_REPLY, up to and including
\* IS_ENCRYPT.store(true, Relaxed).
KexReply(m) ==
    \E sid_ok \in BOOLEAN, sig_ok \in BOOLEAN, write_ok \in BOOLEAN :
       /\ reply_outcome' = IF ~sid_ok THEN "SessionIdError"
                           ELSE IF ~sig_ok THEN "SignatureError"
                           ELSE IF ~write_ok THEN "IoError" ELSE "Ok"
       /\ IF sid_ok
          THEN /\ exchanges' = exchanges + 1
               /\ kex_k' = exchanges + 1
               /\ kex_h' = exchanges + 1
               /\ session_id' = SessionIdAfter(session_id, exchanges + 1)
          ELSE UNCHANGED <<kex_k, kex_h, session_id, exchanges>>
       /\ IF ReplyProceeds(sid_ok, sig_ok)
          THEN IF write_ok
               THEN /\ chan_sent' = Append(chan_sent, Packet("SSH_MSG_NEWKEYS", None, ""))
                    /\ IS_ENCRYPT' = TRUE
                    /\ chan_pc' = "install_key"
                    /\ UNCHANGED chan_result
               ELSE /\ chan_pc' = "done"
                    /\ chan_result' = "IoError"
                    /\ UNCHANGED <<chan_sent, IS_ENCRYPT>>
          ELSE /\ chan_pc' = "done"
               /\ chan_result' = IF sid_ok THEN "SignatureError" ELSE "SessionIdError"
               /\ UNCHANGED <<chan_sent, IS_ENCRYPT>>
       /\ UNCHANGED encryption_key

\* other_info(message_code, result), from the match to the first store to a
\* global of the arm taken, or to the end when the arm makes none.
OtherInfo(m) ==
    CASE m.code = "SSH_MSG_GLOBAL_REQUEST" ->
           /\ \E n \in 0..1 : WriteAll(<<Packet("SSH_MSG_REQUEST_FAILURE", None, "")>>, n)
           /\ UNCHANGED keyVars
      [] m.code = "SSH_MSG_KEXINIT" ->
           IF IS_ENCRYPT
           THEN /\ IS_ENCRYPT' = FALSE
                /\ chan_pc' = "reset_key"
                /\ UNCHANGED <<chan_result, chan_sent, encryption_key, kex_k, kex_h,
                               session_id, exchanges, reply_outcome>>
           ELSE KexInitReply /\ UNCHANGED keyVars
      [] m.code = "SSH_MSG_KEX_ECDH_REPLY" ->
           KexReply(m)
      [] m.code = "SSH_MSG_CHANNEL_FAILURE" ->
           /\ chan_pc' = "done"
           /\ chan_result' = "ChannelFailureError"
           /\ UNCHANGED <<chan_sent, keyVars>>
      [] m.code = "SSH_MSG_CHANNEL_CLOSE" ->
           /\ \E n \in 0..1 :
                WriteAll(<<Packet("SSH_MSG_CHANNEL_CLOSE", Some(server_channel), "")>>, n)
           /\ UNCHANGED keyVars
      [] OTHER ->
           UNCHANGED <<chan_pc, chan_result, chan_sent, keyVars>>

\* let results = self.stream.read()?;
ChanRead ==
    /\ chan_pc = "loop"
    /\ chan_inbox = <<>>
    /\ Len(chan_seen) < MaxChanMsgs
    /\ \/ /\ chan_pc' = "done"
          /\ chan_result' = "IoError"
          /\ UNCHANGED chan_inbox
       \/ /\ \E results \in Batches(ChanInbound) :
               /\ Len(results) <= MaxChanMsgs - Len(chan_seen)
               /\ chan_inbox' = results
          /\ UNCHANGED <<chan_pc, chan_result>>
    /\ UNCHANGED <<chan_op, remote_close, local_close, chan_seen, chan_sent, keyVars, observed>>
    /\ UNCHANGED <<seqVars, closeVars, windowVars, sessVars>>

\* One turn of `for buf in results` in open_shell(): the match on the message code.
OpenShellMatch(m) ==
    CASE m.code = "SSH_MSG_CHANNEL_OPEN_CONFIRMATION" ->
           /\ server_channel' = m.channel
           /\ \E n \in 0..2 : WriteAll(<<PtyRequest(m.channel), ShellRequest(m.channel)>>, n)
           /\ chan_inbox' = IF chan_pc' = "done" THEN <<>> ELSE Tail(chan_inbox)
           /\ UNCHANGED keyVars
      [] m.code = "SSH_MSG_CHANNEL_SUCCESS" ->
           /\ ChanReturn("ChannelShell")
           /\ UNCHANGED <<server_channel, chan_sent, keyVars>>
      [] OTHER ->
           /\ OtherInfo(m)
           /\ chan_inbox' = IF chan_pc' = "done" THEN <<>> ELSE Tail(chan_inbox)
           /\ UNCHANGED server_channel

\* One turn of `for buf in results` in open_exec(): the match on the message code.
OpenExecMatch(m) ==
    CASE m.code = "SSH_MSG_CHANNEL_OPEN_CONFIRMATION" ->
           /\ server_channel' = m.channel
           /\ \E n \in 0..1 :
                /\ chan_sent' = chan_sent \o SubSeq(<<PtyRequest(m.channel)>>, 1, n)
                /\ ChanReturn(IF n = 1 THEN "ChannelExec" ELSE "IoError")
           /\ UNCHANGED keyVars
      [] OTHER ->
           /\ OtherInfo(m)
           /\ chan_inbox' = IF chan_pc' = "done" THEN <<>> ELSE Tail(chan_inbox)
           /\ UNCHANGED server_channel

\* The loop body of open_shell() / open_exec() for the next message of the read.
ChanDispatch ==
    /\ chan_pc = "loop"
    /\ chan_inbox # <<>>
    /\ chan_seen' = Append(chan_seen, Head(chan_inbox))
    /\ IF chan_op = "open_shell"
       THEN OpenShellMatch(Head(chan_inbox))
       ELSE OpenExecMatch(Head(chan_inbox))
    /\ UNCHANGED <<chan_op, remote_close, local_close, observed>>
    /\ UNCHANGED <<close_pc, close_result, close_sent, close_matched, close_globals,
                   client_channel, now, date_time, timeout, checked_at>>
    /\ UNCHANGED <<seqVars, windowVars, sessVars>>

\* other_info(), arm SSH_MSG_KEXINIT, after IS_ENCRYPT.store(false, Relaxed):
\* update_encryption_key(None), then the negotiation and the public key.
KexInitResetKey ==
    /\ chan_pc = "reset_key"
    /\ UNCHANGED <<chan_op, remote_close, local_close, chan_seen, observed>>
    /\ encryption_key' = None
    /\ KexInitReply
    /\ IF chan_pc' = "done" THEN chan_inbox' = <<>> ELSE UNCHANGED chan_inbox
    /\ UNCHANGED <<IS_ENCRYPT, kex_k, kex_h, session_id, exchanges, reply_outcome>>
    /\ UNCHANGED <<seqVars, closeVars, windowVars, sessVars>>

\* other_info(), arm SSH_MSG_KEX_ECDH_REPLY, after IS_ENCRYPT.store(true, Relaxed):
\* update_encryption_key(Some(poly1305)), the key made by
\* HASH::new(&h.k, &session_id, &session_id).
KexReplyInstallKey ==
    /\ chan_pc = "install_key"
    /\ encryption_key' = Some(HASH_new(kex_k, session_id, session_id))
    /\ chan_pc' = "loop"
    /\ UNCHANGED <<IS_ENCRYPT, kex_k, kex_h, session_id, exchanges, reply_outcome>>
    /\ UNCHANGED <<chan_op, remote_close, local_close, chan_result, chan_inbox, chan_seen,
                   chan_sent, observed>>
    /\ UNCHANGED <<seqVars, closeVars, windowVars, sessVars>>

\* Another thread of the process has the transport protect or unprotect a
\* packet: it loads IS_ENCRYPT and the key as they stand at that moment.
PacketByOtherThread ==
    /\ chan_pc # "done"
    /\ observed' = [flag |-> IS_ENCRYPT, key |-> encryption_key]
    /\ UNCHANGED <<chan_op, remote_close, local_close, chan_pc, chan_result, chan_inbox,
                   chan_seen, chan_sent,
                   keyVars>>
    /\ UNCHANGED <<seqVars, closeVars, windowVars, sessVars>>

NextChan == ChanRead \/ ChanDispatch \/ KexInitResetKey \/ KexReplyInstallKey
            \/ PacketByOtherThread

(***************************************************************************)
(* Specifications                                                          *)
(***************************************************************************)
InitSpecSeq    == InitSeq /\ CloseIdle /\ WindowIdle /\ SessionIdle /\ ChanIdle
InitSpecClose  == SeqIdle /\ InitClose /\ WindowIdle /\ SessionIdle /\ ChanIdle
InitSpecWindow == SeqIdle /\ CloseIdle /\ InitWindow /\ SessionIdle /\ ChanIdle
InitSpecStall  == SeqIdle /\ CloseIdle /\ InitWindow /\ SessionIdle /\ ChanIdle
InitSpecOpen   == SeqIdle /\ CloseIdle /\ WindowIdle /\ SessionIdle /\ ChanIdle
\* Session::open_channel() hands the channel over with server_channel: 0.
InitSpecChan   == SeqIdle /\ InitClose /\ server_channel = 0 /\ WindowIdle /\ SessionIdle
                  /\ InitChan
Init           == SeqIdle /\ CloseIdle /\ WindowIdle /\ InitSession /\ ChanIdle

SpecSeq    == InitSpecSeq /\ [][NextSeq]_vars
SpecClose  == InitSpecClose /\ [][NextClose]_vars
SpecWindow == InitSpecWindow /\ [][NextWindow]_vars
SpecStall  == InitSpecStall /\ [][NextStall]_vars
SpecOpen   == InitSpecOpen /\ [][NextOpen]_vars
SpecChan   == InitSpecChan /\ [][NextChan]_vars
Next       == NextSession
Spec       == Init /\ [][Next]_vars

(***************************************************************************)
(* Properties                                                              *)
(***************************************************************************)

\* C1: each sequence counter starts at 0, moves by exactly +1 modulo 2^32 per
\* call, takes the value 0 after u32::MAX and skips nothing: after N calls it
\* equals N mod 2^32.  (client_calls and server_calls count the calls modulo 2^32.)
SeqCountsCalls ==
    /\ client_sequence_num = client_calls
    /\ server_sequence_num = server_calls

\* C2: close() never hangs: when the 1.5 s have elapsed at a test of the deadline
\* and no matching CHANNEL_CLOSE has come, close() returns the timeout error
\* instead of going on to another read.
CloseReturnsOnceTimeoutElapsed ==
    ~(close_pc = "read" /\ checked_at >= timeout)

\* C3: close() returns success only having first written exactly one
\* SSH_MSG_CHANNEL_CLOSE for server_channel and then, before the timeout (the
\* test of the deadline that preceded the read was made before the 1.5 s had
\* elapsed), read an SSH_MSG_CHANNEL_CLOSE whose channel number is client_channel.
CloseSucceedsOnlyOnTimelyAck ==
    close_result = "Ok" =>
        /\ close_sent = <<Msg("SSH_MSG_CHANNEL_CLOSE", server_channel)>>
        /\ close_matched
        /\ checked_at < timeout

\* The part of C3 that does not involve the deadline: success only after exactly
\* one CHANNEL_CLOSE for server_channel was written and a CHANNEL_CLOSE for
\* client_channel was read.
CloseSucceedsOnlyOnAck ==
    close_result = "Ok" =>
        /\ close_sent = <<Msg("SSH_MSG_CHANNEL_CLOSE", server_channel)>>
        /\ close_matched

\* C4: a call of window_adjust() writes a WINDOW_ADJUST exactly when the consumed
\* counter has reached LOCAL_WINDOW_SIZE/2 (unless the write itself fails, which
\* ends the call with the error), one message per call, none below the
\* threshold, and the counter is 0 right after the message.
WindowAdjustAccounting ==
    [][win_pc = "adjust" =>
         LET emitted == Len(adjust_sent') - Len(adjust_sent)
             half    == LOCAL_WINDOW_SIZE \div 2
         IN  /\ emitted \in {0, 1}
             /\ sender_window_size < half =>
                    emitted = 0 /\ win_pc' = "recv"
                                /\ sender_window_size' = sender_window_size
             /\ sender_window_size >= half =>
                    \/ emitted = 1 /\ win_pc' = "recv" /\ sender_window_size' = 0
                    \/ emitted = 0 /\ win_pc' = "error"
                                   /\ sender_window_size' = sender_window_size]_vars

\* C5: the window the peer may use (the LOCAL_WINDOW_SIZE advertised in
\* CHANNEL_OPEN, minus the data received, plus every WINDOW_ADJUST amount) never
\* exceeds LOCAL_WINDOW_SIZE.
PeerWindowWithinLocalWindow == WideLeq(peer_window, WideOf(LOCAL_WINDOW_SIZE))

\* C6: connect() returns success only if SSH_MSG_SERVICE_ACCEPT was handled and
\* a USERAUTH_REQUEST was written before SSH_MSG_USERAUTH_SUCCESS was handled.
AuthenticatedOnlyAfterRequest ==
    conn_result = "Ok" => accept_seen /\ InWire("SSH_MSG_USERAUTH_REQUEST")

\* The messages connect() writes, in the order of its steps.
ConnectOrder ==
    <<"VERSION", "SSH_MSG_KEXINIT", "SSH_MSG_KEX_ECDH_INIT", "SSH_MSG_NEWKEYS",
      "SSH_MSG_SERVICE_REQUEST", "SSH_MSG_USERAUTH_REQUEST">>

\* How many of them connect() has written when it stands at a step.
WrittenAt(pc) ==
    CASE pc \in {"idle", "receive_version", "validation", "send_version"} -> 0
      [] pc \in {"kex_new", "send_algorithm"} -> 1
      [] pc \in {"receive_algorithm", "matching_algorithm", "send_qc"} -> 2
      [] pc = "verify_signature_and_new_keys" -> 3
      [] pc = "initiate_authentication" -> 4
      [] OTHER -> 5

\* C7: the client version is written only if its validation succeeded,
\* SERVICE_REQUEST only after the key exchange completed, USERAUTH_REQUEST only
\* after SERVICE_ACCEPT was handled; and wherever connect() stands or has failed,
\* none of the messages of its later steps has been written.
ConnectOrdering ==
    /\ InWire("VERSION") => version_ok
    /\ InWire("SSH_MSG_SERVICE_REQUEST") => kex_done
    /\ InWire("SSH_MSG_USERAUTH_REQUEST") => accept_seen /\ conn_pc = "authentication"
    /\ \A i \in 1..5 : i > WrittenAt(conn_pc) => ~InWire(ConnectOrder[i])
    /\ kex_done => InWire("SSH_MSG_NEWKEYS")

\* C7, witness: connect() has got as far as writing the USERAUTH_REQUEST.
AuthRequestWritten ==
    InWire("SSH_MSG_USERAUTH_REQUEST") /\ InWire("SSH_MSG_SERVICE_REQUEST")

\* C8 as stated: connect() returns UserNull before any message was written.
UserNullBeforeAnyWrite ==
    conn_result = "UserNullError" => wire = <<>>

\* C8, amended: with an empty username no USERAUTH_REQUEST is ever written;
\* UserNull is returned when (and only when) authentication() handles
\* SSH_MSG_SERVICE_ACCEPT with an empty username, after the version string, the
\* key exchange messages and SSH_MSG_SERVICE_REQUEST have been written.
UserNullBeforeAuthRequest ==
    /\ username = "" => ~InWire("SSH_MSG_USERAUTH_REQUEST")
    /\ username = "" /\ accept_seen => conn_result = "UserNullError"
    /\ conn_result = "UserNullError" =>
           /\ username = ""
           /\ accept_seen
           /\ \A i \in 1..5 : InWire(ConnectOrder[i])

\* C8, witness: connect() has returned UserNull.
UserNullReturned == conn_result = "UserNullError"

\* C9: SSH_MSG_CHANNEL_OPEN is written, and a Channel returned, only after
\* connect() has returned success.
ChannelOpenOnlyWhenAuthenticated ==
    (InWire("SSH_MSG_CHANNEL_OPEN") \/ channels # <<>>) => conn_result = "Ok"

\* Whether the call that wrote the CHANNEL_OPEN o has returned a Channel.
Returned(o) ==
    \E k \in 1..Len(channels) :
        channels[k].thread = o.thread /\ channels[k].call = o.call

\* C10: the channels returned carry pairwise different client channel numbers,
\* strictly increasing in the order of return, and no number written in a
\* CHANNEL_OPEN is written again in a later CHANNEL_OPEN of a returned channel.
ChannelIdsUniqueAndIncreasing ==
    /\ \A i, j \in 1..Len(channels) :
           i < j => U32Less(channels[i].client_channel, channels[j].client_channel)
    /\ \A i, j \in 1..Len(open_sent) :
           (i < j /\ Returned(open_sent[j]))
               => open_sent[i].client_channel # open_sent[j].client_channel

\* The packets of chan_sent, by position, with the given code.
SentWith(code) == { p \in 1..Len(chan_sent) : chan_sent[p].code = code }
\* The inbound messages of chan_seen, by position, with the given code.
SeenWith(code) == { i \in 1..Len(chan_seen) : chan_seen[i].code = code }
\* A channel ready for use was returned.
ChanReady == chan_result \in {"ChannelShell", "ChannelExec"}

\* C11: open_shell() returns a ChannelShell only after an open confirmation was
\* received, the pty request and then the shell request were sent for the sender
\* channel of that confirmation, and SSH_MSG_CHANNEL_SUCCESS was received after
\* them; the channel returned has that sender channel as its server_channel.
ShellReadyOnlyAfterConfirmation ==
    chan_result = "ChannelShell" =>
        \E i \in SeenWith("SSH_MSG_CHANNEL_OPEN_CONFIRMATION") :
            /\ server_channel = chan_seen[i].channel
            /\ \E p, q \in SentWith("SSH_MSG_CHANNEL_REQUEST") :
                  /\ p < q
                  /\ chan_sent[p].request = "pty-req"
                  /\ chan_sent[q].request = "shell"
                  /\ chan_sent[p].channel = Some(server_channel)
                  /\ chan_sent[q].channel = Some(server_channel)
                  /\ chan_sent[p].seen = i
                  /\ chan_sent[q].seen = i
            /\ i < Len(chan_seen)
            /\ chan_seen[Len(chan_seen)].code = "SSH_MSG_CHANNEL_SUCCESS"

\* C12: once the server has answered with a rejection (a channel-open failure, or
\* SSH_MSG_CHANNEL_FAILURE), open_shell() / open_exec() have stopped waiting and
\* returned a channel error, and no ready channel is returned.
RejectionEndsOperation ==
    (SeenWith("SSH_MSG_CHANNEL_OPEN_FAILURE") \cup SeenWith("SSH_MSG_CHANNEL_FAILURE")) # {}
        => chan_result = "ChannelFailureError"

\* C13: a step turns the encryption flag on, or installs a cipher, only when the
\* SSH_MSG_KEX_ECDH_REPLY in hand passed session-id generation and signature
\* verification; when either failed, the dispatcher returns that error and
\* leaves the flag and the installed key as they were.
RekeyInstallsOnlyVerified ==
    [][ /\ (~IS_ENCRYPT /\ IS_ENCRYPT') => reply_outcome' = "Ok"
        /\ (encryption_key' # encryption_key /\ encryption_key' # None)
              => (reply_outcome = "Ok" /\ IS_ENCRYPT)
        /\ ( /\ chan_seen' # chan_seen
             /\ chan_seen'[Len(chan_seen')].code = "SSH_MSG_KEX_ECDH_REPLY"
             /\ reply_outcome' \in {"SessionIdError", "SignatureError"} )
              => /\ chan_result' = reply_outcome'
                 /\ IS_ENCRYPT' = IS_ENCRYPT
                 /\ encryption_key' = encryption_key
      ]_vars

\* A rekey went through: after a fresh SSH_MSG_KEXINIT turned protection off, a
\* verified reply turned it on again with the key of the second exchange.
RekeyInstalled ==
    /\ SeenWith("SSH_MSG_KEXINIT") # {}
    /\ reply_outcome = "Ok"
    /\ IS_ENCRYPT
    /\ encryption_key # None
    /\ encryption_key[1].k = 2

\* C14: once encryption has been activated, no packet is written with the
\* encryption flag off; the client's KEXINIT and DH public key of a rekey go out
\* under the previous cipher.
NoPacketWrittenUnprotected ==
    \A p \in 1..Len(chan_sent) : chan_sent[p].encrypted

\* C15: every SSH_MSG_GLOBAL_REQUEST handed to close(), open_shell() or
\* open_exec() is answered with exactly one SSH_MSG_REQUEST_FAILURE, unless the
\* write of the answer fails.
GlobalRequestsRefused ==
    /\ close_result # "IoError" =>
          Cardinality({ p \in 1..Len(close_sent) :
                          close_sent[p].code = "SSH_MSG_REQUEST_FAILURE" }) = close_globals
    /\ chan_result # "IoError" =>
          Cardinality(SentWith("SSH_MSG_REQUEST_FAILURE"))
             = Cardinality(SeenWith("SSH_MSG_GLOBAL_REQUEST"))

\* C16: the session identifier is that of the first exchange (written 1)
\* whenever the key agreement holds one, and every key installed is derived from
\* K and H of the exchange just made and that session identifier.
SessionIdFixedKeysFresh ==
    [][ /\ session_id' \in {session_id, 1}
        /\ (encryption_key' # encryption_key /\ encryption_key' # None)
              => encryption_key' = Some(HASH_new(kex_k', kex_h', 1))
      ]_vars

\* C17: the amount of every SSH_MSG_CHANNEL_WINDOW_ADJUST written equals the
\* bytes consumed since the previous adjustment, the counter's value just before
\* it is reset.
AdjustCarriesReclaimed ==
    [][ Len(adjust_sent') > Len(adjust_sent)
           => adjust_sent'[Len(adjust_sent')] = U32Of(sender_window_size) ]_vars

\* C18: with window_adjust() run after every delivery, the peer's window is never
\* exhausted while the consumed counter is below the adjust threshold.
NoSenderStall ==
    ~(peer_window = WideOf(0) /\ sender_window_size < (LOCAL_WINDOW_SIZE \div 2))

\* C19: whenever a packet is protected or unprotected, by any thread, the
\* encryption flag is found set exactly when a cipher key is found installed.
FlagMatchesKey ==
    observed.flag <=> (observed.key # None)

\* C20: once a SSH_MSG_CHANNEL_CLOSE from the peer has been handled by
\* open_shell() / open_exec(), the close was acknowledged for server_channel
\* (unless the transport failed) and no ready channel is ever returned.
RemoteCloseNeverReady ==
    \A i \in SeenWith("SSH_MSG_CHANNEL_CLOSE") :
        /\ ~ChanReady
        /\ chan_result # "IoError" =>
              \E p \in SentWith("SSH_MSG_CHANNEL_CLOSE") : chan_sent[p].seen = i

=============================================================================
